---- MODULE Spec2Model ----
(***************************************************************************)
(* Model of QOpenScienceFramework/manager.py: ConnectionManager, the       *)
(* token-aware HTTP client with its pending-request replay queue and its   *)
(* redirect handling.                                                      *)
(*                                                                         *)
(* The Python methods are operators on a record m that holds the fields    *)
(* of the manager (and of the osf session); a handler is the composition   *)
(* of the operators it calls, so a callback that issues new requests from  *)
(* inside another handler is part of the same step, as it is in the        *)
(* single-threaded Qt event loop.                                          *)
(***************************************************************************)
EXTENDS Integers, Sequences, FiniteSets, TLC

\* ConnectionManager.MAX_REDIRECTS
MAX_REDIRECTS == 5

\* Bounds of the model
MaxOps == 4
MaxCalls == 2
MaxTime == 2
\* Replies in flight when the caller or the user starts another operation
MaxInFlight == 2
\* 301/302 replies beyond MAX_REDIRECTS in a behaviour that follows redirects
ExtraRedirectReplies == 2
\* Lifetime of a token the login window obtains
TokenTTL == 1
\* Downloads and uploads of a behaviour that transfers files
MaxTransfers == 1
\* Chunks a download writes to its temporary file
MaxChunks == 1

Users == {"u1", "u2"}
NoUser == "nobody"
NoToken == "notoken"
NoFile == [access_token |-> NoToken, expires_at |-> 0]
Urls == {"a"}
RedirectTargets == {"b"}
ApiLoggedInUser == "api_logged_in_user"
LogoutUrl == "logout_url"
DownloadUrl == "download_url"
UploadUrl == "upload_url"
\* Python's None for an id / an integer kwarg that is not set
NoId == 0
NotSet == -1
NoFail == [id |-> NoId, owner |-> NoUser, queued |-> FALSE]
\* Python's None for a file handle in the kwargs
NoHandle == 0

VARIABLES
    logged_in_user,     \* self.logged_in_user: NoUser for {} or the user's id
    session_token,      \* osf.session: the user the access token belongs to, or NoToken
    pending_requests,   \* self.pending_requests: entries in insertion order
    replies,            \* QNetworkReply objects in flight, in the order of issue
    browser_shown,      \* the login window is showing
    next_id,            \* uuid4(): the next fresh request id
    tokenfile,          \* the token file: NoFile or [access_token, expires_at]
    handles,            \* the QTemporaryFile / QFile objects opened for transfers: per handle
                        \* its kind, the number of close() calls and the chunks written
    destination,        \* the file at the destination path of the download:
                        \* "absent", "previous" (what was there) or "downloaded"
    now,                \* time.time()
    ops,                \* number of operations of the caller and of the user that issued a request so far
    calls,              \* number of verb calls that issued a request so far
    redirects,          \* number of 301/302 replies so far
    transfers,          \* number of downloads and uploads that issued a request so far
    limits,             \* how many operations, calls, redirects and clock ticks a behaviour has
    delivered,          \* per logical request: times its continuation was invoked
    reissued,           \* per logical request: times a replay issued it again
    authfailed          \* per logical request: the id and owner of its request whose reply
                        \* failed authentication, and whether its entry was queued then;
                        \* NoFail again once the next identity fetch completes

vars == <<logged_in_user, session_token, pending_requests, replies, browser_shown,
          next_id, tokenfile, handles, destination, now, ops, calls, redirects, transfers, limits, delivered, reissued,
          authfailed>>

Lids == 1..MaxCalls

\* The keyword arguments a caller passes along with a verb call.
NoKwargs ==
    [_request_id |-> NoId, redirect_count |-> NotSet, errorCallback |-> FALSE,
     abortSignal |-> FALSE, downloadProgress |-> FALSE, uploadProgress |-> FALSE,
     readyRead |-> FALSE, extra |-> "none", progressDialog |-> "none",
     finishedCallback |-> FALSE, destination |-> FALSE, tmp_file |-> NoHandle,
     data_to_send |-> NoHandle]

CallerKwargs ==
    { NoKwargs,
      [NoKwargs EXCEPT !.errorCallback = TRUE, !.abortSignal = TRUE,
                       !.downloadProgress = TRUE, !.readyRead = TRUE, !.extra = "x"] }

\* The manager's fields as one value, threaded through the methods of a handler,
\* with what the handler reads from its environment: isOnline() and time.time().
\* out: what the handler has emitted so far (signals, callbacks, requests), in order.
Machine(net, t) ==
    [isOnline |-> net, time |-> t, user |-> logged_in_user, token |-> session_token, pending |-> pending_requests,
     replies |-> replies, browser |-> browser_shown, next_id |-> next_id,
     tokenfile |-> tokenfile, handles |-> handles, destination |-> destination,
     raised |-> FALSE, out |-> <<>>]

\* A handler that has raised an exception does nothing more
emit(m, e) == IF m.raised THEN m ELSE [m EXCEPT !.out = Append(@, e)]

\* raise: the exception leaves the handler through every caller
raise(m, exception) == [emit(m, [kind |-> exception]) EXCEPT !.raised = TRUE]

error_message(m, title) == emit(m, [kind |-> "error_message", title |-> title])

warning_message(m, title) == emit(m, [kind |-> "warning_message", title |-> title])

\* osf.is_authorized() and the Authorization header
add_token(m) == m.token # NoToken

\* The reply object a verb creates and the finished-slot it connects:
\* lambda: self.__reply_finished(callback, *args, **kwargs)
NewReply(m, req, kwargs, abortable) ==
    [verb |-> req.verb, url |-> req.url, callback |-> req.callback, kwargs |-> kwargs,
     token |-> m.token, abortable |-> abortable, lid |-> req.lid, replay |-> req.replay,
     owner |-> req.owner]

Issue(m, req, kwargs, abortable, warns) ==
    LET m1 == IF add_token(m) \/ ~warns THEN m
              ELSE warning_message(m, "Token could not be added to the request")
        r == NewReply(m1, req, kwargs, abortable)
    IN  emit([m1 EXCEPT !.replies = Append(@, r)], [kind |-> "request", reply |-> r])

\* redirect_count = kwargs.get('redirect_count', 0)
RedirectCountOrZero(kwargs) ==
    IF kwargs.redirect_count = NotSet THEN 0 ELSE kwargs.redirect_count

\* __check_request_parameters and the type checks on the data of post and put:
\* req.valid says whether the arguments of the call have the types they need
check_request_parameters(req) == req.valid

\* abortSignal.connect(reply.abort) and progressDialog.canceled.connect(reply.abort)
Abortable(kwargs) == kwargs.abortSignal \/ kwargs.progressDialog = "dialog"

\* The undecorated verbs
func_get(m, req) ==
    IF ~check_request_parameters(req) THEN raise(m, "TypeError")
    ELSE Issue(m, req,
               [req.kwargs EXCEPT !.redirect_count = RedirectCountOrZero(req.kwargs)],
               Abortable(req.kwargs), TRUE)

func_post(m, req) ==
    IF ~check_request_parameters(req) THEN raise(m, "TypeError")
    ELSE Issue(m, req, req.kwargs, FALSE, FALSE)

func_put(m, req) ==
    IF ~check_request_parameters(req) THEN raise(m, "TypeError")
    ELSE Issue(m, req, req.kwargs, Abortable(req.kwargs), TRUE)

func_delete(m, req) ==
    IF ~check_request_parameters(req) THEN raise(m, "TypeError")
    ELSE Issue(m, req,
               [req.kwargs EXCEPT !.redirect_count = RedirectCountOrZero(req.kwargs)],
               req.kwargs.abortSignal, TRUE)

func(m, req) ==
    CASE req.verb = "get" -> func_get(m, req)
      [] req.verb = "post" -> func_post(m, req)
      [] req.verb = "put" -> func_put(m, req)
      [] req.verb = "delete" -> func_delete(m, req)

\* func_wrapper that buffers the request before it looks at the network
func_wrapper_buffers_first(m, req) ==
    LET request_id == m.next_id
        queued == [req EXCEPT !.kwargs._request_id = request_id, !.owner = m.user]
        m1 == IF m.user # NoUser
              THEN emit([m EXCEPT !.next_id = @ + 1,
                                  !.pending = Append(@, [id |-> request_id,
                                                         owner |-> m.user,
                                                         request |-> queued])],
                        [kind |-> "enqueue", id |-> request_id])
              ELSE m
    IN  IF ~m.isOnline THEN error_message(m1, "No network access")
        ELSE IF m.user # NoUser THEN func(m1, queued) ELSE func(m, req)

\* func_wrapper that buffers the request only once the verb has returned
func_wrapper_buffers_last(m, req) ==
    IF ~m.isOnline
    THEN error_message(m, "No network access")
    ELSE IF m.user # NoUser
         THEN LET request_id == m.next_id
                  queued == [req EXCEPT !.kwargs._request_id = request_id,
                                        !.owner = m.user]
                  m1 == func(m, queued)
              IN  emit([m1 EXCEPT !.next_id = @ + 1,
                                  !.pending = Append(@, [id |-> request_id,
                                                         owner |-> m.user,
                                                         request |-> queued])],
                       [kind |-> "enqueue", id |-> request_id])
         ELSE func(m, req)

\* check_network_accessibility.func_wrapper: the decorator around every verb
func_wrapper(m, req) ==
    IF ~m.isOnline
    THEN error_message(m, "No network access")
    ELSE IF m.user # NoUser
         THEN LET request_id == m.next_id
                  \* the closure shares the kwargs dict that receives _request_id
                  queued == [req EXCEPT !.kwargs._request_id = request_id,
                                        !.owner = m.user]
                  m1 == [m EXCEPT !.next_id = @ + 1,
                                  !.pending = Append(@, [id |-> request_id,
                                                         owner |-> m.user,
                                                         request |-> queued])]
              IN  func(emit(m1, [kind |-> "enqueue", id |-> request_id]), queued)
         ELSE func(m, req)

\* EventDispatcher.dispatch_logout -> handle_logout; the session is cleared on logout
handle_logout(m) == [m EXCEPT !.user = NoUser]

session_after_logout(m) == [m EXCEPT !.token = NoToken]

dispatch_logout(m) ==
    session_after_logout(handle_logout(emit(m, [kind |-> "dispatch_logout"])))

show_login_window(m) == emit([m EXCEPT !.browser = TRUE], [kind |-> "show_login_window"])

\* One request of the caller or of the manager itself: what func receives
Request(verb, url, callback, kwargs, lid) ==
    [verb |-> verb, url |-> url, callback |-> callback, kwargs |-> kwargs,
     lid |-> lid, replay |-> FALSE, owner |-> NoUser, valid |-> TRUE]

\* The decorated get, as redirects and get_logged_in_user call it
get(m, url, callback, kwargs, lid) ==
    func_wrapper(m, Request("get", url, callback, kwargs, lid))

post(m, url, callback, kwargs, lid) ==
    func_wrapper(m, Request("post", url, callback, kwargs, lid))

put(m, url, callback, kwargs, lid) ==
    func_wrapper(m, Request("put", url, callback, kwargs, lid))

\* handle_login: self.get_logged_in_user(self.set_logged_in_user)
handle_login(m) == get(m, ApiLoggedInUser, "set_logged_in_user", NoKwargs, 0)

dispatch_login(m) == handle_login(emit(m, [kind |-> "dispatch_login"]))

\* self.pending_requests.pop(current_request_id, None)
RECURSIVE WithoutId(_, _)
WithoutId(q, id) ==
    IF q = <<>> THEN <<>>
    ELSE IF Head(q).id = id THEN WithoutId(Tail(q), id)
         ELSE <<Head(q)>> \o WithoutId(Tail(q), id)

pop_pending(m, id) ==
    IF id = NoId THEN m
    ELSE emit([m EXCEPT !.pending = WithoutId(@, id)], [kind |-> "pop", id |-> id])

\* QIODevice.close() on the handle h
close(m, h) ==
    emit([m EXCEPT !.handles[h].closes = @ + 1], [kind |-> "close", handle |-> h])

\* __close_file_handles that forgets the source file of an upload
close_file_handles_tmp_only(m, kwargs) ==
    IF kwargs.tmp_file # NoHandle THEN close(m, kwargs.tmp_file) ELSE m

\* __close_file_handles
close_file_handles(m, kwargs) ==
    LET m1 == IF kwargs.tmp_file # NoHandle THEN close(m, kwargs.tmp_file) ELSE m
    IN  IF kwargs.data_to_send # NoHandle THEN close(m1, kwargs.data_to_send) ELSE m1

\* The order in which a dict yields its values: insertion order on CPython >= 3.7,
\* the hash order of the uuid keys on the Python 2 / Qt4 builds this module supports.
Perms(n) == { f \in [1..n -> 1..n] : \A i, j \in 1..n : f[i] = f[j] => i = j }

values(q, ord) == [i \in 1..Len(q) |-> q[ord[i]]]

\* for (user_id, request) in values: if user_id == id of logged_in_user: request()
RECURSIVE replay(_, _)
replay(m, entries) ==
    IF entries = <<>> \/ m.raised THEN m
    ELSE LET e == Head(entries)
             m1 == IF e.owner = m.user
                   THEN func(emit(m, [kind |-> "replay", id |-> e.id]),
                             [e.request EXCEPT !.replay = TRUE])
                   ELSE m
         IN  replay(m1, Tail(entries))

\* set_logged_in_user that discards only the entries it has fired
RECURSIVE NotOwnedBy(_, _)
NotOwnedBy(q, user) ==
    IF q = <<>> THEN <<>>
    ELSE IF Head(q).owner = user THEN NotOwnedBy(Tail(q), user)
         ELSE <<Head(q)>> \o NotOwnedBy(Tail(q), user)

set_logged_in_user_keeps_others(m, user, ord) ==
    LET m1 == [m EXCEPT !.user = user]
        m2 == replay(emit(m1, [kind |-> "set_logged_in_user", user |-> user,
                               queue |-> m1.pending]),
                     values(m1.pending, ord))
    IN  IF m2.raised THEN m2 ELSE [m2 EXCEPT !.pending = NotOwnedBy(@, user)]

set_logged_in_user(m, user, ord) ==
    LET m1 == [m EXCEPT !.user = user]
        m2 == replay(emit(m1, [kind |-> "set_logged_in_user", user |-> user,
                               queue |-> m1.pending]),
                     values(m1.pending, ord))
    IN  IF m2.raised THEN m2 ELSE [m2 EXCEPT !.pending = <<>>]

\* The kwargs.pop calls without the one of errorCallback
StripInternal_keeps_errorCallback(kwargs) ==
    [kwargs EXCEPT !._request_id = NoId, !.redirect_count = NotSet,
                   !.downloadProgress = FALSE, !.uploadProgress = FALSE,
                   !.readyRead = FALSE, !.abortSignal = FALSE]

\* kwargs.pop of the internally used keys before the callback is called
StripInternal(kwargs) ==
    [kwargs EXCEPT !._request_id = NoId, !.redirect_count = NotSet,
                   !.downloadProgress = FALSE, !.uploadProgress = FALSE,
                   !.readyRead = FALSE, !.errorCallback = FALSE, !.abortSignal = FALSE]

\* fcb = kwargs.pop('finishedCallback', None); if callable(fcb): fcb(reply, ...)
call_finishedCallback(m, kwargs) ==
    IF kwargs.finishedCallback
    THEN emit(m, [kind |-> "finishedCallback",
                  kwargs |-> [kwargs EXCEPT !.finishedCallback = FALSE]])
    ELSE m

\* __download: the callback of the identity fetch that download_file issues;
\* o.open: whether tmp_file.open(WriteOnly) succeeds, which the code does not test
download(m, o, kwargs) ==
    LET tmp_file == Len(m.handles) + 1
        m1 == [m EXCEPT !.handles = Append(@, [kind |-> "tmp_file", closes |-> 0,
                                                written |-> <<>>, opened |-> o.open])]
        kw == [kwargs EXCEPT !.tmp_file = tmp_file,
                             !.progressDialog = IF @ = "dict" THEN "dialog" ELSE @,
                             !.downloadProgress = (kwargs.progressDialog = "dict"),
                             !.readyRead = TRUE]
    IN  get(m1, DownloadUrl, "__download_finished", kw, 0)

\* tmp_file.copy(destination): a temporary file that was never opened has no
\* file name and cannot be copied
copy(m, o, h) == o.copy /\ m.handles[h].opened

\* __download_finished going on to the copy when the removal has failed
download_finished_copies_anyway(m, o, kwargs) ==
    IF ~kwargs.destination \/ kwargs.tmp_file = NoHandle
    THEN raise(m, "AttributeError")
    ELSE LET m1 == close(m, kwargs.tmp_file)
             kw == [kwargs EXCEPT !.progressDialog = "none"]
             m2 == IF m1.destination # "absent" /\ ~o.remove
                   THEN error_message(m1, "Could not replace")
                   ELSE m1
         IN  IF ~copy(m1, o, kwargs.tmp_file)
             THEN error_message([m2 EXCEPT !.destination = "absent"],
                                "Could not save file to")
             ELSE call_finishedCallback([m2 EXCEPT !.destination = "downloaded"],
                                        kw)

\* __download_finished, o: whether QFile.remove and QTemporaryFile.copy succeed
download_finished(m, o, kwargs) ==
    IF ~kwargs.destination \/ kwargs.tmp_file = NoHandle
    THEN raise(m, "AttributeError")
    ELSE LET m1 == close(m, kwargs.tmp_file)
             kw == [kwargs EXCEPT !.progressDialog = "none"]
         IN  IF m1.destination # "absent" /\ ~o.remove
             THEN error_message(m1, "Could not replace")
             ELSE IF ~copy(m1, o, kwargs.tmp_file)
                  THEN error_message([m1 EXCEPT !.destination = "absent"],
                                     "Could not save file to")
                  ELSE call_finishedCallback([m1 EXCEPT !.destination = "downloaded"],
                                             kw)

\* __upload: the callback of the identity fetch that upload_file issues
upload(m, kwargs) ==
    LET source_file == Len(m.handles) + 1
        m1 == [m EXCEPT !.handles = Append(@, [kind |-> "source_file", closes |-> 0,
                                                written |-> <<>>, opened |-> TRUE])]
        kw == [kwargs EXCEPT !.data_to_send = source_file,
                             !.progressDialog = IF @ = "dict" THEN "dialog" ELSE @,
                             !.uploadProgress = (kwargs.progressDialog = "dict")]
    IN  put(m1, UploadUrl, "__upload_finished", kw, 0)

\* __upload_finished
upload_finished(m, kwargs) ==
    IF kwargs.data_to_send = NoHandle
    THEN raise(m, "AttributeError")
    ELSE call_finishedCallback(close(m, kwargs.data_to_send),
                               [kwargs EXCEPT !.progressDialog = "none"])

\* callback(reply, *args, **kwargs)
call_callback(m, r, o, kwargs, ord) ==
    CASE r.callback = "set_logged_in_user" -> set_logged_in_user(m, o.user, ord)
      [] r.callback = "logout_succeeded" -> dispatch_logout(m)
      [] r.callback = "__download" -> download(m, o, kwargs)
      [] r.callback = "__download_finished" -> download_finished(m, o, kwargs)
      [] r.callback = "__upload" -> upload(m, kwargs)
      [] r.callback = "__upload_finished" -> upload_finished(m, kwargs)
      [] OTHER -> emit(m, [kind |-> "callback", lid |-> r.lid, kwargs |-> kwargs])

call_errorCallback(m, r) ==
    IF r.kwargs.errorCallback THEN emit(m, [kind |-> "errorCallback", lid |-> r.lid])
    ELSE m

deleteLater(m) == emit(m, [kind |-> "deleteLater"])

\* The error branch releasing the queue entry on every error
reply_error_releases_always(m, r, o) ==
    LET m1 == IF o.error = "AuthenticationRequiredError"
              THEN show_login_window(dispatch_logout(m))
              ELSE IF o.error # "OperationCanceledError"
                   THEN error_message(m, "status")
                   ELSE m
        m2 == close_file_handles(pop_pending(m1, r.kwargs._request_id), r.kwargs)
    IN  deleteLater(call_errorCallback(m2, r))

\* The error branch reporting every error that is not a cancellation
reply_error_reports_auth(m, r, o) ==
    LET m0 == IF o.error # "OperationCanceledError"
              THEN error_message(m, "status")
              ELSE m
        m1 == IF o.error = "AuthenticationRequiredError"
              THEN show_login_window(dispatch_logout(m0))
              ELSE close_file_handles(pop_pending(m0, r.kwargs._request_id), r.kwargs)
    IN  deleteLater(call_errorCallback(m1, r))

\* The error branch that leaves the file handles to the caller
reply_error_keeps_handles(m, r, o) ==
    LET m1 == IF o.error = "AuthenticationRequiredError"
              THEN show_login_window(dispatch_logout(m))
              ELSE LET m2 == IF o.error # "OperationCanceledError"
                             THEN error_message(m, "status")
                             ELSE m
                   IN  pop_pending(m2, r.kwargs._request_id)
    IN  deleteLater(call_errorCallback(m1, r))

\* The error branch dispatching the logout event whatever the error is
reply_error_always_logs_out(m, r, o) ==
    LET m1 == IF o.error = "AuthenticationRequiredError"
              THEN show_login_window(dispatch_logout(m))
              ELSE LET m2 == IF o.error # "OperationCanceledError"
                             THEN error_message(m, "status")
                             ELSE m
                   IN  dispatch_logout(
                          close_file_handles(pop_pending(m2, r.kwargs._request_id),
                                             r.kwargs))
    IN  deleteLater(call_errorCallback(m1, r))

\* __reply_finished, the error branch
reply_error(m, r, o) ==
    LET m1 == IF o.error = "AuthenticationRequiredError"
              THEN show_login_window(dispatch_logout(m))
              ELSE LET m2 == IF o.error # "OperationCanceledError"
                             THEN error_message(m, "status")
                             ELSE m
                   IN  close_file_handles(pop_pending(m2, r.kwargs._request_id),
                                          r.kwargs)
    IN  deleteLater(call_errorCallback(m1, r))

\* The redirect branch with the bound compared by <=
reply_redirect_one_more(m, r, o) ==
    IF r.kwargs.redirect_count = NotSet
    THEN raise(m, "KeyError")
    ELSE IF r.kwargs.redirect_count <= MAX_REDIRECTS
         THEN LET kwargs == [r.kwargs EXCEPT !._request_id = NoId,
                                             !.redirect_count = @ + 1]
                  m1 == IF r.verb = "get"
                        THEN get(m, o.target, r.callback, kwargs, r.lid)
                        ELSE m
              IN  deleteLater(m1)
         ELSE deleteLater(close_file_handles(
                  call_errorCallback(error_message(m, "Too Many redirects"), r),
                  r.kwargs))

\* The redirect branch asking the url of the request again, not the target
reply_redirect_same_url(m, r, o) ==
    IF r.kwargs.redirect_count = NotSet
    THEN raise(m, "KeyError")
    ELSE IF r.kwargs.redirect_count < MAX_REDIRECTS
         THEN LET kwargs == [r.kwargs EXCEPT !._request_id = NoId,
                                             !.redirect_count = @ + 1]
                  m1 == IF r.verb = "get"
                        THEN get(m, r.url, r.callback, kwargs, r.lid)
                        ELSE m
              IN  deleteLater(m1)
         ELSE deleteLater(close_file_handles(
                  call_errorCallback(error_message(m, "Too Many redirects"), r),
                  r.kwargs))

\* __reply_finished, a 301/302 reply
reply_redirect(m, r, o) ==
    IF r.kwargs.redirect_count = NotSet
    THEN raise(m, "KeyError")
    ELSE IF r.kwargs.redirect_count < MAX_REDIRECTS
         THEN LET kwargs == [r.kwargs EXCEPT !._request_id = NoId,
                                             !.redirect_count = @ + 1]
                  m1 == IF r.verb = "get"
                        THEN get(m, o.target, r.callback, kwargs, r.lid)
                        ELSE m
              IN  deleteLater(m1)
         ELSE deleteLater(close_file_handles(
                  call_errorCallback(error_message(m, "Too Many redirects"), r),
                  r.kwargs))

\* __reply_finished handing every reply to the callback, failed ones included
reply_finished_ignores_error(m, r, o, ord) ==
    LET m1 == pop_pending(m, r.kwargs._request_id)
    IN  IF o.error = "NoError" /\ o.status \in {301, 302}
        THEN reply_redirect(m1, r, o)
        ELSE deleteLater(call_callback(m1, r, o, StripInternal(r.kwargs), ord))

\* __reply_finished
reply_finished(m, r, o, ord) ==
    IF o.error # "NoError"
    THEN reply_error(m, r, o)
    ELSE LET m1 == pop_pending(m, r.kwargs._request_id)
         IN  IF o.status \in {301, 302}
             THEN reply_redirect(m1, r, o)
             ELSE deleteLater(call_callback(m1, r, o, StripInternal(r.kwargs), ord))

\* check_for_stored_token: the value it returns
stored_token_valid(m) ==
    /\ m.tokenfile # NoFile
    /\ m.tokenfile.expires_at > m.time

\* check_for_stored_token taking a token that expires now for a valid one
check_for_stored_token_inclusive(m) ==
    IF m.tokenfile = NoFile THEN m
    ELSE IF m.tokenfile.expires_at >= m.time
         THEN [m EXCEPT !.token = m.tokenfile.access_token]
         ELSE [m EXCEPT !.token = NoToken, !.tokenfile = NoFile]

\* check_for_stored_token: what it does to the session and to the file
check_for_stored_token(m) ==
    IF m.tokenfile = NoFile THEN m
    ELSE IF m.tokenfile.expires_at > m.time
         THEN [m EXCEPT !.token = m.tokenfile.access_token]
         ELSE [m EXCEPT !.token = NoToken, !.tokenfile = NoFile]

\* login opening the login window after the login event as well
login_window_too(m) ==
    IF stored_token_valid(m)
    THEN show_login_window(dispatch_login(check_for_stored_token(m)))
    ELSE show_login_window(check_for_stored_token(m))

login(m) ==
    IF stored_token_valid(m)
    THEN dispatch_login(check_for_stored_token(m))
    ELSE show_login_window(check_for_stored_token(m))

\* logout without the test of the session
logout_unconditional(m) == post(m, LogoutUrl, "logout_succeeded", NoKwargs, 0)

logout(m) ==
    IF m.token # NoToken
    THEN post(m, LogoutUrl, "logout_succeeded", NoKwargs, 0)
    ELSE m

\* download_file for a destination in an existing directory:
\* self.get_logged_in_user(self.__download, *args, **kwargs)
download_file(m, kwargs) ==
    get(m, ApiLoggedInUser, "__download", [kwargs EXCEPT !.destination = TRUE], 0)

\* upload_file for a source file that exists:
\* self.get_logged_in_user(self.__upload, *args, **kwargs)
upload_file(m, kwargs) == get(m, ApiLoggedInUser, "__upload", kwargs, 0)

\* The reply a chunk has come from: the hop of its request in a chain of
\* redirects, and whether the replay has issued it
ChunkOf(r) == [hop |-> r.kwargs.redirect_count, replay |-> r.replay]

\* __download_readyRead of reply r (self.sender()): kwargs['tmp_file'].write(data),
\* which writes nothing to a file that is not open
download_readyRead(m, r) ==
    IF r.kwargs.tmp_file = NoHandle THEN raise(m, "AttributeError")
    ELSE [m EXCEPT !.handles[r.kwargs.tmp_file].written =
                      IF m.handles[r.kwargs.tmp_file].opened
                         /\ m.handles[r.kwargs.tmp_file].closes = 0
                      THEN Append(@, ChunkOf(r)) ELSE @]

\* The login window has obtained a token for user u: it stores it in the session,
\* the token file is written, and browser.logged_in fires dispatch_login
browser_logged_in(m, u) ==
    dispatch_login([m EXCEPT !.token = u, !.browser = FALSE,
                             !.tokenfile = [access_token |-> u,
                                            expires_at |-> m.time + TokenTTL]])

\* ---- the state machine ----

InitState ==
    /\ logged_in_user = NoUser
    /\ session_token = NoToken
    /\ pending_requests = <<>>
    /\ replies = <<>>
    /\ browser_shown = FALSE
    /\ next_id = 1
    /\ handles = <<>>
    /\ now = 0
    /\ ops = 0
    /\ calls = 0
    /\ redirects = 0
    /\ transfers = 0
    /\ delivered = [l \in Lids |-> 0]
    /\ reissued = [l \in Lids |-> 0]
    /\ authfailed = [l \in Lids |-> NoFail]

\* The token file is what an earlier run of the program left behind
StoredTokens(maxtime) ==
    {NoFile} \cup [access_token : {"u1"}, expires_at : 0..(maxtime + 1)]

\* A behaviour explores one of: the interleavings of calls, logins and replies;
\* a chain of redirects; the expiry of the stored token; a longer run of logins
\* around one call.
Sessions ==
    [ops |-> MaxOps, calls |-> MaxCalls, redirects |-> 0, time |-> 0,
     misuse |-> FALSE, transfers |-> 0]

Redirects ==
    [ops |-> MaxOps - 2, calls |-> MaxCalls - 1,
     redirects |-> MAX_REDIRECTS + ExtraRedirectReplies, time |-> 0,
     misuse |-> FALSE, transfers |-> 0]

Expiry ==
    [ops |-> MaxOps - 2, calls |-> MaxCalls - 1, redirects |-> 0, time |-> MaxTime,
     misuse |-> FALSE, transfers |-> 0]

Relogins ==
    [ops |-> MaxOps + 1, calls |-> MaxCalls - 1, redirects |-> 0, time |-> 0,
     misuse |-> FALSE, transfers |-> 0]

\* Calls whose arguments have the wrong types, among calls that are well typed
Misuse ==
    [ops |-> MaxOps - 1, calls |-> MaxCalls, redirects |-> 0, time |-> 0,
     misuse |-> TRUE, transfers |-> 0]

\* Downloads and uploads
Transfers ==
    [ops |-> MaxOps - 1, calls |-> 0, redirects |-> 1, time |-> 0,
     misuse |-> FALSE, transfers |-> MaxTransfers]

\* What is at the destination path before the program runs
Destinations == {"absent", "previous"}

Init ==
    /\ InitState
    /\ limits \in {Sessions, Redirects, Expiry, Relogins, Misuse, Transfers}
    /\ tokenfile \in StoredTokens(limits.time)
    /\ destination \in IF limits.transfers > 0 THEN Destinations ELSE {"absent"}

Count(out, P(_)) == Cardinality({ i \in DOMAIN out : P(out[i]) })

IsCallbackOf(l, e) == e.kind = "callback" /\ e.lid = l

IsReplayedRequestOf(l, e) == e.kind = "request" /\ e.reply.replay /\ e.reply.lid = l

IsSetUser(e) == e.kind = "set_logged_in_user"

IsRequest(e) == e.kind = "request"

\* The handler's result becomes the new state
Commit(m) ==
    /\ logged_in_user' = m.user
    /\ session_token' = m.token
    /\ pending_requests' = m.pending
    /\ replies' = m.replies
    /\ browser_shown' = m.browser
    /\ next_id' = m.next_id
    /\ tokenfile' = m.tokenfile
    /\ handles' = m.handles
    /\ destination' = m.destination
    /\ now' = m.time
    /\ delivered' = [l \in Lids |->
                        delivered[l] + Count(m.out, LAMBDA e : IsCallbackOf(l, e))]
    /\ reissued' = [l \in Lids |->
                       reissued[l] + Count(m.out, LAMBDA e : IsReplayedRequestOf(l, e))]
    /\ UNCHANGED limits

\* time.time() never goes back
Times == now..limits.time

IsEnqueue(e) == e.kind = "enqueue"

\* The call has left something behind: a request or a queue entry
Counts(m) == IF Count(m.out, IsRequest) + Count(m.out, IsEnqueue) > 0 THEN 1 ELSE 0

\* valid: the arguments of the call have the types the verb checks for
CallResult(verb, url, kwargs, valid, net) ==
    func_wrapper(Machine(net, now),
                 [Request(verb, url, "callback", kwargs, calls + 1)
                     EXCEPT !.valid = valid])

Validities == IF limits.misuse THEN BOOLEAN ELSE {TRUE}

Call(verb, url, kwargs) ==
    /\ ops < limits.ops
    /\ Len(replies) < MaxInFlight
    /\ calls < limits.calls
    /\ \E net \in BOOLEAN, valid \in Validities :
          LET m == CallResult(verb, url, kwargs, valid, net)
          IN  /\ Commit(m)
              /\ calls' = calls + Counts(m)
              /\ ops' = ops + Counts(m)
    /\ UNCHANGED <<redirects, authfailed, transfers>>

Get == \E url \in Urls, kwargs \in CallerKwargs : Call("get", url, kwargs)

Post == \E url \in Urls, kwargs \in CallerKwargs : Call("post", url, kwargs)

Put == \E url \in Urls, kwargs \in CallerKwargs : Call("put", url, kwargs)

Delete == \E url \in Urls, kwargs \in CallerKwargs : Call("delete", url, kwargs)

LoginResult(net, t) == login(Machine(net, t))

Login ==
    /\ ops < limits.ops
    /\ Len(replies) < MaxInFlight
    /\ ~browser_shown
    /\ \E net \in BOOLEAN, t \in Times :
          LET m == LoginResult(net, t)
          IN  /\ Commit(m)
              /\ ops' = ops + Count(m.out, IsRequest)
    /\ UNCHANGED <<calls, redirects, authfailed, transfers>>

LogoutResult(net) == logout(Machine(net, now))

Logout ==
    /\ ops < limits.ops
    /\ Len(replies) < MaxInFlight
    /\ \E net \in BOOLEAN :
          LET m == LogoutResult(net)
          IN  /\ Commit(m)
              /\ ops' = ops + Count(m.out, IsRequest)
    /\ UNCHANGED <<calls, redirects, authfailed, transfers>>

BrowserLoggedInResult(u, net, t) == browser_logged_in(Machine(net, t), u)

BrowserLoggedIn ==
    /\ ops < limits.ops
    /\ Len(replies) < MaxInFlight
    /\ browser_shown
    /\ \E u \in Users, net \in BOOLEAN, t \in Times :
          LET m == BrowserLoggedInResult(u, net, t)
          IN  /\ Commit(m)
              /\ ops' = ops + Count(m.out, IsRequest)
    /\ UNCHANGED <<calls, redirects, authfailed, transfers>>

\* The options a caller gives to download_file and upload_file
TransferKwargs ==
    { [NoKwargs EXCEPT !.finishedCallback = TRUE],
      [NoKwargs EXCEPT !.finishedCallback = TRUE, !.errorCallback = TRUE,
                       !.abortSignal = TRUE, !.progressDialog = "dict"] }

DownloadFileResult(kwargs, net) == download_file(Machine(net, now), kwargs)

DownloadFile ==
    /\ ops < limits.ops
    /\ Len(replies) < MaxInFlight
    /\ transfers < limits.transfers
    /\ \E kwargs \in TransferKwargs, net \in BOOLEAN :
          LET m == DownloadFileResult(kwargs, net)
          IN  /\ Commit(m)
              /\ ops' = ops + Count(m.out, IsRequest)
              /\ transfers' = transfers + Count(m.out, IsRequest)
    /\ UNCHANGED <<calls, redirects, authfailed>>

UploadFileResult(kwargs, net) == upload_file(Machine(net, now), kwargs)

UploadFile ==
    /\ ops < limits.ops
    /\ Len(replies) < MaxInFlight
    /\ transfers < limits.transfers
    /\ \E kwargs \in TransferKwargs, net \in BOOLEAN :
          LET m == UploadFileResult(kwargs, net)
          IN  /\ Commit(m)
              /\ ops' = ops + Count(m.out, IsRequest)
              /\ transfers' = transfers + Count(m.out, IsRequest)
    /\ UNCHANGED <<calls, redirects, authfailed>>

\* The readyRead signal of a download in flight: a chunk has arrived
ReadyReadResult(i) == download_readyRead(Machine(TRUE, now), replies[i])

ReadyRead ==
    \E i \in DOMAIN replies :
       /\ replies[i].callback = "__download_finished"
       /\ replies[i].kwargs.readyRead
       /\ Len(handles[replies[i].kwargs.tmp_file].written) < MaxChunks
       /\ Commit(ReadyReadResult(i))
       /\ UNCHANGED <<ops, calls, redirects, authfailed, transfers>>

InQueue(q, id) == \E k \in DOMAIN q : q[k].id = id

\* What the transport can report for a reply in flight
SuccessReports(r) ==
    IF r.url = ApiLoggedInUser /\ r.token = NoToken THEN {}
    ELSE [error : {"NoError"}, status : {200}, target : {"a"}, user : {r.token},
          remove : IF r.callback = "__download_finished" THEN BOOLEAN ELSE {TRUE},
          copy : IF r.callback = "__download_finished" THEN BOOLEAN ELSE {TRUE},
          open : IF r.callback = "__download" THEN BOOLEAN ELSE {TRUE}]

RedirectReports(r) ==
    [error : {"NoError"}, status : {301, 302}, target : RedirectTargets, user : {r.token},
     remove : {TRUE}, copy : {TRUE}, open : {TRUE}]

ErrorReports(r) ==
    [error : {"AuthenticationRequiredError", "OtherError"} \cup
             (IF r.abortable THEN {"OperationCanceledError"} ELSE {}),
     status : {0}, target : {"a"}, user : {r.token}, remove : {TRUE}, copy : {TRUE}, open : {TRUE}]

Reports(r) == SuccessReports(r) \cup RedirectReports(r) \cup ErrorReports(r)

\* The reports a behaviour takes: redirects as far as its limit allows
Outcomes(r) ==
    SuccessReports(r) \cup ErrorReports(r)
    \cup (IF redirects < limits.redirects THEN RedirectReports(r) ELSE {})

IsRedirect(o) == o.error = "NoError" /\ o.status \in {301, 302}

IsSuccess(o) == o.error = "NoError" /\ o.status \notin {301, 302}

RemoveAt(s, i) == [j \in 1..(Len(s) - 1) |-> IF j < i THEN s[j] ELSE s[j + 1]]

Identity(n) == [i \in 1..n |-> i]

\* The iteration orders the dict can take when set_logged_in_user runs
IterOrders(r, o) ==
    LET n == Len(WithoutId(pending_requests, r.kwargs._request_id))
    IN  IF r.callback = "set_logged_in_user" /\ IsSuccess(o)
        THEN Perms(n) ELSE {Identity(n)}

ReplyResult(i, o, ord, net) ==
    reply_finished([Machine(net, now) EXCEPT !.replies = RemoveAt(replies, i)],
                   replies[i], o, ord)

ReplyFinished ==
    \E i \in DOMAIN replies :
       LET r == replies[i]
       IN  \E o \in Outcomes(r) : \E ord \in IterOrders(r, o) : \E net \in BOOLEAN :
              LET m == ReplyResult(i, o, ord, net)
              IN  /\ Commit(m)
                  /\ authfailed' =
                        IF Count(m.out, IsSetUser) > 0
                        THEN [l \in Lids |-> NoFail]
                        ELSE IF /\ o.error = "AuthenticationRequiredError"
                                /\ r.kwargs._request_id # NoId
                                /\ ~r.replay
                                /\ r.lid \in Lids
                             THEN [authfailed EXCEPT ![r.lid] =
                                      [id |-> r.kwargs._request_id, owner |-> r.owner,
                                       queued |-> InQueue(pending_requests,
                                                          r.kwargs._request_id)]]
                             ELSE authfailed
                  /\ redirects' = IF IsRedirect(o) THEN redirects + 1 ELSE redirects
                  /\ UNCHANGED <<ops, calls, transfers>>

Next ==
    \/ Get
    \/ Post
    \/ Put
    \/ Delete
    \/ Login
    \/ Logout
    \/ BrowserLoggedIn
    \/ DownloadFile
    \/ UploadFile
    \/ ReadyRead
    \/ ReplyFinished

Spec == Init /\ [][Next]_vars

\* ---- what the handlers emit ----

IsReplay(e) == e.kind = "replay"

IsReplayOf(id, e) == e.kind = "replay" /\ e.id = id

IsReplayedRequest(e) == e.kind = "request" /\ e.reply.replay

IsErrorMessage(e) == e.kind = "error_message"

IsErrorCallback(e) == e.kind = "errorCallback"

IsCallback(e) == e.kind = "callback"

\* P holds of every way a reply in flight can complete in this state:
\* P(the reply, the report, isOnline(), the result of __reply_finished)
EveryCompletion(P(_, _, _, _)) ==
    \A i \in DOMAIN replies : \A o \in Reports(replies[i]) :
       \A ord \in IterOrders(replies[i], o) : \A net \in BOOLEAN :
          P(replies[i], o, net, ReplyResult(i, o, ord, net))

SomeCompletion(P(_, _, _, _)) ==
    \E i \in DOMAIN replies : \E o \in Reports(replies[i]) :
       \E ord \in IterOrders(replies[i], o) : \E net \in BOOLEAN :
          P(replies[i], o, net, ReplyResult(i, o, ord, net))

\* The completion is an identity fetch that succeeds: set_logged_in_user runs
SetsUser(r, o) == r.callback = "set_logged_in_user" /\ IsSuccess(o)

\* The queue set_logged_in_user finds: the reply's own entry is released before
QueueAtCallback(r) == WithoutId(pending_requests, r.kwargs._request_id)

Pos(q, id) == CHOOSE k \in DOMAIN q : q[k].id = id

\* ---- C1 ----
\* C1: the completion continuation of a logical request is never invoked more
\* than once, whatever the interleaving of replies, logins, logouts and replays.
C1_ExactlyOnceDelivery == \A l \in Lids : delivered[l] <= 1

\* ---- C2 ----
\* C2: when a request issued while U was logged in has failed authentication and
\* the next identity fetch returns U, the replay of that login re-issues the
\* request exactly once: not zero times, not more than once. (Stated for the
\* requests no earlier replay has issued again.)
C2_Holds(r, o, net, m) ==
    SetsUser(r, o) =>
       \A l \in Lids :
          (authfailed[l].owner = o.user /\ reissued[l] = 0) =>
             Count(m.out, LAMBDA e : IsReplayedRequestOf(l, e)) = 1

C2_ReissuedOnceAfterReauth == EveryCompletion(C2_Holds)

\* ---- C3 ----
\* C3: the replay fires the continuations of the newly logged-in user in the
\* order in which their requests were enqueued.
C3_Holds(r, o, net, m) ==
    SetsUser(r, o) =>
       LET fired == SelectSeq(m.out, IsReplay)
       IN  \A j, k \in DOMAIN fired :
              j < k => Pos(pending_requests, fired[j].id) < Pos(pending_requests, fired[k].id)

C3_ReplayInEnqueueOrder == EveryCompletion(C3_Holds)

\* ---- C4 ----
\* C4: the replay after a login of U fires each pending continuation owned by U
\* once, fires no continuation of another owner, and leaves the queue empty.
C4_Holds(r, o, net, m) ==
    SetsUser(r, o) =>
       LET q == QueueAtCallback(r)
       IN  /\ \A k \in DOMAIN q :
                 Count(m.out, LAMBDA e : IsReplayOf(q[k].id, e))
                    = IF q[k].owner = o.user THEN 1 ELSE 0
           /\ \A k \in DOMAIN m.out :
                 IsReplayedRequest(m.out[k]) =>
                    \E j \in DOMAIN q :
                       /\ q[j].owner = o.user
                       /\ q[j].id = m.out[k].reply.kwargs._request_id
                       /\ q[j].request.callback = m.out[k].reply.callback
           /\ Count(m.out, IsReplayedRequest) = Count(m.out, IsReplay)
           /\ m.pending = <<>>
           /\ m.user = o.user

C4_ReplayOnlyOwnAndClear == EveryCompletion(C4_Holds)

C4_Fires(r, o, net, m) ==
    SetsUser(r, o) /\ Count(m.out, IsReplay) > 0

C4_Discards(r, o, net, m) ==
    /\ SetsUser(r, o)
    /\ \E k \in DOMAIN QueueAtCallback(r) : QueueAtCallback(r)[k].owner # o.user
    /\ Count(m.out, IsReplay) = 0

\* The request of a user has failed authentication and the identity fetch of
\* that user's next login is about to replay it
C4_Witness ==
    /\ \E l \in Lids : authfailed[l].queued
    /\ SomeCompletion(C4_Fires)

\* A login of another user about to discard the queue
C4_OthersDiscarded == SomeCompletion(C4_Discards)

\* ---- C5 ----
\* C5: the hop counter never exceeds MAX_REDIRECTS, and the 301/302 reply to a
\* GET that has followed MAX_REDIRECTS redirects is terminal: no request is
\* issued, 'Too Many redirects' is emitted, the error callback, if supplied, runs.
IsTooManyRedirects(e) == e.kind = "error_message" /\ e.title = "Too Many redirects"

C5_Holds(r, o, net, m) ==
    /\ \A k \in DOMAIN m.out :
          IsRequest(m.out[k]) => m.out[k].reply.kwargs.redirect_count <= MAX_REDIRECTS
    /\ (IsRedirect(o) /\ r.verb = "get" /\ r.kwargs.redirect_count >= MAX_REDIRECTS) =>
          /\ Count(m.out, IsRequest) = 0
          /\ Count(m.out, IsTooManyRedirects) = 1
          /\ Count(m.out, IsErrorCallback) = IF r.kwargs.errorCallback THEN 1 ELSE 0
          /\ Count(m.out, IsCallback) = 0

C5_RedirectsBounded ==
    /\ \A i \in DOMAIN replies : replies[i].kwargs.redirect_count <= MAX_REDIRECTS
    /\ \A k \in DOMAIN pending_requests :
          pending_requests[k].request.kwargs.redirect_count <= MAX_REDIRECTS
    /\ EveryCompletion(C5_Holds)

C5_Terminal(r, o, net, m) ==
    /\ IsRedirect(o) /\ r.verb = "get" /\ r.kwargs.errorCallback
    /\ r.kwargs.redirect_count = MAX_REDIRECTS
    /\ Count(m.out, IsTooManyRedirects) = 1

\* The sixth redirect reply of a GET that was given an error callback
C5_Witness == redirects = MAX_REDIRECTS /\ SomeCompletion(C5_Terminal)

\* ---- C6 ----
\* C6: a 301/302 reply to a GET below the bound makes the manager call get with
\* the target of the reply, the hop count plus one, the same continuation and
\* the caller's options unchanged; the continuation is not invoked for it.
SameOptions(k1, k2) ==
    /\ k1.errorCallback = k2.errorCallback
    /\ k1.abortSignal = k2.abortSignal
    /\ k1.downloadProgress = k2.downloadProgress
    /\ k1.uploadProgress = k2.uploadProgress
    /\ k1.readyRead = k2.readyRead
    /\ k1.extra = k2.extra

C6_Holds(r, o, net, m) ==
    (IsRedirect(o) /\ r.verb = "get" /\ r.kwargs.redirect_count < MAX_REDIRECTS) =>
       /\ Count(m.out, IsRequest) = IF net THEN 1 ELSE 0
       /\ \A k \in DOMAIN m.out :
             IsRequest(m.out[k]) =>
                LET n == m.out[k].reply
                IN  /\ n.verb = "get"
                    /\ n.url = o.target
                    /\ n.callback = r.callback
                    /\ n.lid = r.lid
                    /\ n.kwargs.redirect_count = r.kwargs.redirect_count + 1
                    /\ SameOptions(n.kwargs, r.kwargs)
       /\ Count(m.out, IsCallback) = 0
       /\ Count(m.out, IsErrorCallback) = 0
       /\ Count(m.out, IsSetUser) = 0

IsAuthError(o) == o.error = "AuthenticationRequiredError"

First(out, kind) == CHOOSE k \in DOMAIN out : out[k].kind = kind

C7_Holds(r, o, net, m) ==
    IsAuthError(o) =>
       /\ Count(m.out, LAMBDA e : e.kind = "dispatch_logout") = 1
       /\ Count(m.out, LAMBDA e : e.kind = "show_login_window") = 1
       /\ First(m.out, "dispatch_logout") < First(m.out, "show_login_window")
       /\ m.user = NoUser
       /\ m.browser
       /\ m.pending = pending_requests

C8_Stated(r, o, net, m) ==
    IsAuthError(o) =>
       /\ Count(m.out, IsErrorMessage) = 0
       /\ Count(m.out, IsErrorCallback) = 0

C8_AuthFailureSilent == EveryCompletion(C8_Stated)

\* C8, amended: a reply that fails authentication emits no error signal and does
\* not invoke the continuation, but the caller's error callback, if one was
\* supplied, is invoked once.
C8_Holds(r, o, net, m) ==
    IsAuthError(o) =>
       /\ Count(m.out, IsErrorMessage) = 0
       /\ Count(m.out, IsCallback) = 0
       /\ Count(m.out, IsSetUser) = 0
       /\ Count(m.out, IsErrorCallback) = IF r.kwargs.errorCallback THEN 1 ELSE 0

C8_AuthFailureNoSignal == EveryCompletion(C8_Holds)

C8_Case(r, o, net, m) ==
    /\ IsAuthError(o)
    /\ r.kwargs.errorCallback
    /\ r.kwargs._request_id # NoId
    /\ Count(m.out, IsErrorCallback) = 1

\* A queued request with an error callback about to fail authentication
C8_Witness == SomeCompletion(C8_Case)

\* ---- C9 ----
\* P holds of every verb call the caller can make in this state
EveryCall(P(_, _, _, _)) ==
    \A verb \in {"get", "post", "put", "delete"}, url \in Urls,
       kwargs \in CallerKwargs, net \in BOOLEAN :
          P(verb, kwargs, net, CallResult(verb, url, kwargs, TRUE, net))

SomeCall(P(_, _, _, _)) ==
    \E verb \in {"get", "post", "put", "delete"}, url \in Urls,
       kwargs \in CallerKwargs, net \in BOOLEAN :
          P(verb, kwargs, net, CallResult(verb, url, kwargs, TRUE, net))

IsPrefix(s, t) == Len(s) <= Len(t) /\ \A k \in DOMAIN s : s[k] = t[k]

IdInUse(id) ==
    \/ InQueue(pending_requests, id)
    \/ \E i \in DOMAIN replies : replies[i].kwargs._request_id = id

\* A verb call while a user is logged in buffers the request under a fresh id
\* with the user's id before it issues the request
C9_Registers(verb, kwargs, net, m) ==
    (net /\ logged_in_user # NoUser) =>
       /\ Count(m.out, LAMBDA e : e.kind = "enqueue") = 1
       /\ Count(m.out, IsRequest) = 1
       /\ First(m.out, "enqueue") < First(m.out, "request")
       /\ Len(m.pending) = Len(pending_requests) + 1
       /\ IsPrefix(pending_requests, m.pending)
       /\ LET e == m.pending[Len(m.pending)]
          IN  /\ ~IdInUse(e.id)
              /\ e.id # NoId
              /\ e.owner = logged_in_user
              /\ m.out[First(m.out, "request")].reply.kwargs._request_id = e.id

\* C9 as the specification states it: the entry of a request stays in the queue
\* for as long as the request is in flight, and only the classification of the
\* request's own response removes it.
C9_Stated(r, o, net, m) ==
    \A k \in DOMAIN pending_requests :
       ~InQueue(m.pending, pending_requests[k].id) =>
          pending_requests[k].id = r.kwargs._request_id

C9_Holds(r, o, net, m) ==
    \A k \in DOMAIN pending_requests :
       ~InQueue(m.pending, pending_requests[k].id) =>
          \/ /\ pending_requests[k].id = r.kwargs._request_id
             /\ ~IsAuthError(o)
          \/ SetsUser(r, o)

IsNoNetworkAccess(e) == e.kind = "error_message" /\ e.title = "No network access"

C10_Holds(verb, kwargs, net, m) ==
    ~net =>
       /\ m.out = <<[kind |-> "error_message", title |-> "No network access"]>>
       /\ m.replies = replies
       /\ m.pending = pending_requests
       /\ m.next_id = next_id
       /\ m.user = logged_in_user

C10_OfflineCallDoesNothing == EveryCall(C10_Holds)

C10_Case(verb, kwargs, net, m) ==
    ~net /\ kwargs.errorCallback /\ Count(m.out, IsNoNetworkAccess) = 1

\* A user is logged in with a request queued, and a call finds the network down
C10_Witness ==
    /\ logged_in_user # NoUser
    /\ pending_requests # <<>>
    /\ calls < limits.calls
    /\ SomeCall(C10_Case)

\* ---- C11 ----
IsTypeError(e) == e.kind = "TypeError"

\* A verb call whose arguments violate a type precondition, made online, raises
\* and issues no request
C11_Raises ==
    \A verb \in {"get", "post", "put", "delete"}, url \in Urls, kwargs \in CallerKwargs :
       LET m == CallResult(verb, url, kwargs, FALSE, TRUE)
       IN  /\ Count(m.out, IsTypeError) = 1
           /\ Count(m.out, IsRequest) = 0
           /\ m.replies = replies

\* No completion of a reply invokes such a call again
C11_NotInvokedAgain(r, o, net, m) == Count(m.out, IsTypeError) = 0

\* C11: a verb call that violates a type precondition raises immediately, issues
\* no request, and no later login, replay or other event invokes the call again.
C11_BadCallNeverRetried == C11_Raises /\ EveryCompletion(C11_NotInvokedAgain)

\* ---- C12 ----
NoInternalKeys(kwargs) ==
    /\ kwargs._request_id = NoId
    /\ kwargs.redirect_count = NotSet
    /\ ~kwargs.downloadProgress
    /\ ~kwargs.uploadProgress
    /\ ~kwargs.readyRead
    /\ ~kwargs.errorCallback
    /\ ~kwargs.abortSignal

IsPop(e) == e.kind = "pop"

IsFinishedCallback(e) == e.kind = "finishedCallback"

\* C12: a reply without error and with a status other than 301/302 invokes the
\* caller's continuation exactly once, with keyword arguments that hold none of
\* the internal keys, after the queue entry of the request has been released.
C12_Holds(r, o, net, m) ==
    (IsSuccess(o) /\ r.callback = "callback") =>
       /\ Count(m.out, IsCallback) = 1
       /\ \A k \in DOMAIN m.out :
             IsCallback(m.out[k]) =>
                /\ NoInternalKeys(m.out[k].kwargs)
                /\ m.out[k].kwargs.extra = r.kwargs.extra
                /\ m.out[k].lid = r.lid
                /\ r.kwargs._request_id # NoId =>
                      \E j \in 1..(k - 1) :
                         IsPop(m.out[j]) /\ m.out[j].id = r.kwargs._request_id
       /\ ~InQueue(m.pending, r.kwargs._request_id)
       /\ Count(m.out, IsErrorCallback) = 0
       /\ Count(m.out, IsErrorMessage) = 0
       /\ \A k \in DOMAIN m.out :
             IsFinishedCallback(m.out[k]) => NoInternalKeys(m.out[k].kwargs)

C12_SuccessInvokesContinuation == EveryCompletion(C12_Holds)

C12_Case(r, o, net, m) ==
    /\ IsSuccess(o) /\ r.callback = "callback"
    /\ r.kwargs.errorCallback /\ r.kwargs.abortSignal /\ r.kwargs.readyRead
    /\ r.kwargs.redirect_count # NotSet
    /\ InQueue(pending_requests, r.kwargs._request_id)
    /\ Count(m.out, IsCallback) = 1

\* A queued request that was given every option is about to succeed
C12_Witness == SomeCompletion(C12_Case)

\* ---- C13 ----
IsOtherError(o) == o.error = "OtherError"

IsCloseOf(h, e) == e.kind = "close" /\ e.handle = h

\* The handler closes each file handle the request carries, once
ClosesHandles(r, m) ==
    /\ r.kwargs.tmp_file # NoHandle =>
          Count(m.out, LAMBDA e : IsCloseOf(r.kwargs.tmp_file, e)) = 1
    /\ r.kwargs.data_to_send # NoHandle =>
          Count(m.out, LAMBDA e : IsCloseOf(r.kwargs.data_to_send, e)) = 1

\* C13: a reply with an error that is neither an authentication failure nor a
\* cancellation emits the error signal, invokes the error callback if one was
\* supplied, releases the queue entry, closes the file handles of the request
\* and does not invoke the continuation.
C13_Holds(r, o, net, m) ==
    IsOtherError(o) =>
       /\ Count(m.out, IsErrorMessage) = 1
       /\ Count(m.out, IsErrorCallback) = IF r.kwargs.errorCallback THEN 1 ELSE 0
       /\ ~InQueue(m.pending, r.kwargs._request_id)
       /\ ClosesHandles(r, m)
       /\ Count(m.out, IsCallback) = 0
       /\ Count(m.out, IsFinishedCallback) = 0
       /\ Count(m.out, IsSetUser) = 0
       /\ Count(m.out, IsRequest) = 0
       /\ m.destination = destination

C13_ErrorReportedAndReleased == EveryCompletion(C13_Holds)

C13_Case(r, o, net, m) ==
    /\ IsOtherError(o)
    /\ r.kwargs.tmp_file # NoHandle
    /\ handles[r.kwargs.tmp_file].closes = 0
    /\ InQueue(pending_requests, r.kwargs._request_id)
    /\ m.handles[r.kwargs.tmp_file].closes = 1

\* The queued GET of a download, its temporary file open, is about to fail
C13_Witness == SomeCompletion(C13_Case)

\* ---- C14 ----
IsCancelled(o) == o.error = "OperationCanceledError"

\* C14: a reply that was aborted by the user emits no error signal, invokes the
\* error callback if one was supplied, releases the queue entry and closes the
\* file handles of the request.
C14_Holds(r, o, net, m) ==
    IsCancelled(o) =>
       /\ Count(m.out, IsErrorMessage) = 0
       /\ Count(m.out, IsErrorCallback) = IF r.kwargs.errorCallback THEN 1 ELSE 0
       /\ ~InQueue(m.pending, r.kwargs._request_id)
       /\ ClosesHandles(r, m)
       /\ Count(m.out, IsCallback) = 0
       /\ Count(m.out, IsFinishedCallback) = 0
       /\ Count(m.out, IsRequest) = 0

C14_CancelSilentAndReleased == EveryCompletion(C14_Holds)

C14_CaseCallback(r, o, net, m) ==
    /\ IsCancelled(o)
    /\ r.kwargs.errorCallback
    /\ InQueue(pending_requests, r.kwargs._request_id)
    /\ Count(m.out, IsErrorCallback) = 1

C14_CaseHandle(r, o, net, m) ==
    /\ IsCancelled(o)
    /\ r.kwargs.data_to_send # NoHandle
    /\ handles[r.kwargs.data_to_send].closes = 0
    /\ m.handles[r.kwargs.data_to_send].closes = 1

\* The PUT of an upload, its source file open, is about to be aborted
C14_Witness == SomeCompletion(C14_CaseHandle)

\* A queued request with an error callback is about to be aborted
C14_WithErrorCallback == SomeCompletion(C14_CaseCallback)

\* ---- C15 ----
\* The reply belongs to the GET of a download or to the PUT of an upload
IsTransfer(r) == r.callback \in {"__download_finished", "__upload_finished"}

\* The file handle a transfer request carries
HandleOf(r) ==
    IF r.callback = "__download_finished" THEN r.kwargs.tmp_file
    ELSE r.kwargs.data_to_send

\* The transfer ends here: success, an error that is no authentication failure,
\* or a cancellation
IsExit(o) == IsSuccess(o) \/ IsOtherError(o) \/ IsCancelled(o)

C15_ClosedOnExit(r, o, net, m) ==
    (IsTransfer(r) /\ IsExit(o)) =>
       /\ Count(m.out, LAMBDA e : IsCloseOf(HandleOf(r), e)) = 1
       /\ m.handles[HandleOf(r)].closes >= 1

\* C15: the file handle of a download or upload is closed on every exit path of
\* the transfer request (success, error, cancellation), and it is never closed
\* twice.
C15_HandleClosedExactlyOnce ==
    /\ EveryCompletion(C15_ClosedOnExit)
    /\ \A h \in DOMAIN handles : handles[h].closes <= 1

\* ---- C16 ----
IsDownload(r) == r.callback = "__download_finished"

\* The transfer ends without success: an error that is no authentication failure
\* (which parks the request for its replay), or a cancellation
IsFailure(o) == IsOtherError(o) \/ IsCancelled(o)

C16_Holds(r, o, net, m) ==
    /\ ~(IsDownload(r) /\ IsSuccess(o)) => m.destination = destination
    /\ (IsDownload(r) /\ IsFailure(o)) =>
          /\ Count(m.out, LAMBDA e : IsCloseOf(r.kwargs.tmp_file, e)) = 1
          /\ m.handles[r.kwargs.tmp_file].closes >= 1

\* C16: only the successful completion of the transfer request of a download
\* changes the destination; when the transfer fails or is cancelled, also after
\* chunks were written to the temporary file, the destination is as it was and
\* the temporary file is closed.
C16_DestinationUntouchedOnFailure == EveryCompletion(C16_Holds)

C16_Case(r, o, net, m) ==
    /\ IsDownload(r) /\ IsFailure(o)
    /\ destination = "previous"
    /\ handles[r.kwargs.tmp_file].written # <<>>
    /\ handles[r.kwargs.tmp_file].closes = 0
    /\ m.destination = "previous"
    /\ m.handles[r.kwargs.tmp_file].closes = 1

C16_Witness == SomeCompletion(C16_Case)

C16_CaseCancelled(r, o, net, m) == C16_Case(r, o, net, m) /\ IsCancelled(o)

\* The same for a transfer cancelled through its progress dialog
C16_CancelledMidway == SomeCompletion(C16_CaseCancelled)

\* ---- C17 ----
\* The destination holds a complete file: the one it had, or the download
Complete == {"previous", "downloaded"}

C17_Holds(r, o, net, m) ==
    (IsDownload(r) /\ IsSuccess(o) /\ destination \in Complete) =>
       m.destination \in Complete

\* C17: when the finalization of a download ends, on any of its outcomes, a
\* destination that held a file holds its previous content or the downloaded
\* content; it is never missing or partial.
C17_ReplacementAtomic == EveryCompletion(C17_Holds)

\* ---- C18 ----
IsErrorTitled(title, e) == e.kind = "error_message" /\ e.title = title

\* __download_finished runs to its file operations
Finalizes(r, o) ==
    IsDownload(r) /\ IsSuccess(o) /\ r.kwargs.destination
    /\ r.kwargs.tmp_file # NoHandle

RemoveFails(r, o) == Finalizes(r, o) /\ destination # "absent" /\ ~o.remove

CopyFails(r, o) ==
    /\ Finalizes(r, o) /\ (destination = "absent" \/ o.remove)
    /\ ~(o.copy /\ handles[r.kwargs.tmp_file].opened)

C18_Holds(r, o, net, m) ==
    /\ RemoveFails(r, o) =>
          /\ Count(m.out, LAMBDA e : IsErrorTitled("Could not replace", e)) = 1
          /\ Count(m.out, IsErrorMessage) = 1
          /\ m.destination = destination
          /\ Count(m.out, IsFinishedCallback) = 0
    /\ CopyFails(r, o) =>
          /\ Count(m.out, LAMBDA e : IsErrorTitled("Could not save file to", e)) = 1
          /\ Count(m.out, IsErrorMessage) = 1
          /\ Count(m.out, IsFinishedCallback) = 0

\* C18: when the file at the destination cannot be deleted, the finalization of
\* a download emits 'Could not replace', attempts no copy, leaves the file as it
\* is and does not invoke the finished callback; when the copy fails it emits
\* 'Could not save file to' and does not invoke the finished callback.
C18_FinalizationErrors == EveryCompletion(C18_Holds)

C18_CaseRemove(r, o, net, m) ==
    /\ RemoveFails(r, o) /\ o.copy
    /\ r.kwargs.finishedCallback
    /\ destination = "previous"
    /\ Count(m.out, LAMBDA e : IsErrorTitled("Could not replace", e)) = 1

C18_Witness == SomeCompletion(C18_CaseRemove)

C18_CaseCopy(r, o, net, m) ==
    /\ CopyFails(r, o)
    /\ r.kwargs.finishedCallback
    /\ Count(m.out, LAMBDA e : IsErrorTitled("Could not save file to", e)) = 1

\* The copy fails
C18_CopyFails == SomeCompletion(C18_CaseCopy)

\* ---- C19 ----
IsLogoutCall(r) == r.callback = "logout_succeeded"

IsDispatchLogout(e) == e.kind = "dispatch_logout"

C19_Stated(r, o, net, m) ==
    IsLogoutCall(r) =>
       /\ Count(m.out, IsDispatchLogout) = 1
       /\ m.user = NoUser

\* C19 as stated: when the logout call that logout() has posted completes, the
\* logout event is dispatched and the stored identity is cleared, whether the
\* call succeeded or failed.
C19_LogoutDispatchedAlways == EveryCompletion(C19_Stated)

C19_Holds(r, o, net, m) ==
    IsLogoutCall(r) =>
       IF IsSuccess(o) \/ IsAuthError(o)
       THEN /\ Count(m.out, IsDispatchLogout) = 1
            /\ m.user = NoUser
            /\ m.token = NoToken
       ELSE /\ Count(m.out, IsDispatchLogout) = 0
            /\ m.user = logged_in_user
            /\ m.token = session_token
            /\ IsOtherError(o) => Count(m.out, IsErrorMessage) = 1

\* C19 as the code has it: the logout event is dispatched, and the identity
\* cleared, when the logout call succeeds or fails authentication; when it
\* completes in any other way no logout event is dispatched and the identity
\* and the session stay as they were.
C19_LogoutDispatchedOnSuccess == EveryCompletion(C19_Holds)

C19_Case(r, o, net, m) ==
    /\ IsLogoutCall(r) /\ IsOtherError(o)
    /\ logged_in_user # NoUser
    /\ m.user = logged_in_user
    /\ Count(m.out, IsDispatchLogout) = 0

C19_Witness == SomeCompletion(C19_Case)

C19_CaseSuccess(r, o, net, m) ==
    /\ IsLogoutCall(r) /\ IsSuccess(o)
    /\ logged_in_user # NoUser
    /\ m.user = NoUser
    /\ Count(m.out, IsDispatchLogout) = 1

\* The logout call succeeds
C19_Succeeds == SomeCompletion(C19_CaseSuccess)

\* ---- C20 ----
\* C20: logout() in a session that is not authenticated does nothing: no
\* request, no event, no signal, the queue and the identity as they were, and a
\* second call does nothing either.
C20_LogoutUnauthenticatedNoOp ==
    session_token = NoToken =>
       \A net \in BOOLEAN :
          LET m == LogoutResult(net)
          IN  /\ m.out = <<>>
              /\ m.replies = replies
              /\ m.pending = pending_requests
              /\ m.user = logged_in_user
              /\ m.token = session_token
              /\ m.next_id = next_id
              /\ m = Machine(net, now)
              /\ logout(m) = m

\* logout() can be called with no session while requests are parked
C20_Witness ==
    /\ session_token = NoToken
    /\ pending_requests # <<>>
    /\ ops < limits.ops
    /\ Len(replies) < MaxInFlight
    /\ \E net \in BOOLEAN : LogoutResult(net).out = <<>>

\* ---- C21 ----
IsShowLoginWindow(e) == e.kind = "show_login_window"

IsDispatchLogin(e) == e.kind = "dispatch_login"

\* login() goes to the login window and dispatches nothing itself
Interactive(m) ==
    /\ Count(m.out, IsShowLoginWindow) = 1
    /\ Count(m.out, IsDispatchLogin) = 0
    /\ m.browser

Expired(t) == tokenfile # NoFile /\ tokenfile.expires_at <= t

C21_Holds(net, t) ==
    LET m == Machine(net, t)
        c == check_for_stored_token(m)
    IN  /\ stored_token_valid(m) <=> (tokenfile # NoFile /\ tokenfile.expires_at > t)
        /\ stored_token_valid(m) =>
              /\ c.token = tokenfile.access_token
              /\ c.tokenfile = tokenfile
        /\ Expired(t) =>
              /\ ~stored_token_valid(m)
              /\ c.token = NoToken
              /\ c.tokenfile = NoFile
              /\ ~stored_token_valid(c)
              /\ Interactive(login(m))
              /\ Interactive(login([c EXCEPT !.browser = FALSE]))
        /\ tokenfile = NoFile => (~stored_token_valid(m) /\ c = m)

\* C21: check_for_stored_token returns True and loads the token into the
\* session exactly when the token file exists and its expires_at is greater
\* than the current time; for an expired token it returns False, resets the
\* session and deletes the file, and a login() after that finds no token and
\* opens the login window.
C21_StoredTokenChecked == \A net \in BOOLEAN, t \in Times : C21_Holds(net, t)

\* A token that was loaded while valid has expired when login() is called
C21_Witness ==
    /\ session_token # NoToken
    /\ ops < limits.ops
    /\ Len(replies) < MaxInFlight
    /\ ~browser_shown
    /\ \E net \in BOOLEAN, t \in Times :
          /\ Expired(t)
          /\ LoginResult(net, t).tokenfile = NoFile
          /\ LoginResult(net, t).token = NoToken

\* ---- C22 ----
\* login() dispatches the login event at once and leaves the login window alone
Immediate(m) ==
    /\ Count(m.out, IsDispatchLogin) = 1
    /\ Count(m.out, IsShowLoginWindow) = 0
    /\ m.browser = browser_shown

C22_Holds(net, t) ==
    LET m == Machine(net, t)
    IN  /\ stored_token_valid(m) => Immediate(login(m))
        /\ ~stored_token_valid(m) => Interactive(login(m))
        /\ \A u \in Users : Count(browser_logged_in(m, u).out, IsDispatchLogin) = 1

\* C22: login() with a valid stored token dispatches the login event at once
\* and does not open the login window; without one it opens the login window
\* and dispatches no login event, which then comes when the login window reports
\* success.
C22_LoginBranches == \A net \in BOOLEAN, t \in Times : C22_Holds(net, t)

\* login() has found a valid stored token: the token is in the session, the
\* identity fetch of the login event is in flight and no login window is open
C22_Witness ==
    /\ tokenfile # NoFile
    /\ session_token = tokenfile.access_token
    /\ ~browser_shown
    /\ logged_in_user = NoUser
    /\ \E i \in DOMAIN replies : replies[i].callback = "set_logged_in_user"
    /\ \A net \in BOOLEAN, t \in Times : C22_Holds(net, t)

\* The login window opened by login() is showing and has not reported yet
C22_WindowOpen ==
    /\ browser_shown
    /\ tokenfile = NoFile
    /\ session_token = NoToken
    /\ replies = <<>>

\* ---- C23 ----
\* The identity fetch that download_file or upload_file issues before the transfer
IsPreCheck(r) == r.callback \in {"__download", "__upload"}

C23_Holds(r, o, net, m) ==
    (IsPreCheck(r) /\ IsSuccess(o)) =>
       \A k \in DOMAIN m.out :
          IsRequest(m.out[k]) =>
             /\ m.out[k].reply.kwargs.errorCallback = r.kwargs.errorCallback
             /\ m.out[k].reply.kwargs.abortSignal = r.kwargs.abortSignal
             /\ r.kwargs.abortSignal => m.out[k].reply.abortable

\* C23: the errorCallback and the abortSignal given to download_file or
\* upload_file are options of the transfer request that follows the identity
\* fetch: the transfer GET or PUT carries them.
C23_TransferCarriesOptions == EveryCompletion(C23_Holds)

\* ---- C24 ----
IsDeleteLater(e) == e.kind = "deleteLater"

C24_Holds(r, o, net, m) == Count(m.out, IsDeleteLater) = 1

\* C24: for every reply that completes, whatever its outcome and its verb,
\* deleteLater is called on the reply exactly once.
C24_ReplyReleasedOnce == EveryCompletion(C24_Holds)

\* ---- C25 ----
C25_NoTransfer(r, o, net, m) ==
    (r.callback = "__download" /\ IsSuccess(o) /\ ~o.open) =>
       Count(m.out, IsRequest) = 0

C25_NothingCopied(r, o, net, m) ==
    (IsDownload(r) /\ r.kwargs.tmp_file # NoHandle
     /\ ~handles[r.kwargs.tmp_file].opened) =>
       m.destination = destination

\* C25: when the temporary file of a download cannot be opened, no transfer GET
\* is issued, and no later completion changes the destination on behalf of that
\* download.
C25_OpenFailureEndsDownload ==
    /\ EveryCompletion(C25_NoTransfer)
    /\ EveryCompletion(C25_NothingCopied)

\* The second half of C25 alone
C25_DestinationKept == EveryCompletion(C25_NothingCopied)

\* ---- C26 ----
IsClose(e) == e.kind = "close"

\* The continuation of the request has been called: what each one leaves behind
Continued(r, m) ==
    CASE r.callback = "callback" -> Count(m.out, IsCallback) > 0
      [] r.callback = "set_logged_in_user" -> Count(m.out, IsSetUser) > 0
      [] r.callback = "logout_succeeded" -> Count(m.out, IsDispatchLogout) > 0
      [] IsPreCheck(r) -> Count(m.out, IsRequest) + Count(m.out, IsErrorMessage) > 0
      [] OTHER -> Count(m.out, IsClose) > 0

Parked(r, m) ==
    r.kwargs._request_id # NoId /\ InQueue(m.pending, r.kwargs._request_id)

C26_Holds(r, o, net, m) ==
    \/ IsSuccess(o) /\ Continued(r, m)
    \/ Count(m.out, IsErrorCallback) > 0
    \/ Count(m.out, IsErrorMessage) > 0
    \/ IsRedirect(o) /\ Count(m.out, IsRequest) > 0
    \/ Parked(r, m)

\* C26: every reply that completes has an outcome the caller can see: the
\* continuation is invoked, the error callback or the error signal fires, the
\* request is issued again for a redirect, or the request stays in the queue
\* for its replay.
C26_EveryReplyHasOutcome == EveryCompletion(C26_Holds)

C26_RedirectKept(r, o, net, m) == IsRedirect(o) => C26_Holds(r, o, net, m)

\* C26 for the replies with a 301/302 status alone
C26_RedirectNotDropped == EveryCompletion(C26_RedirectKept)

\* ---- C27 ----
C27_Holds(r, o, net, m) ==
    (r.replay /\ logged_in_user # NoUser /\ ~IsAuthError(o)) => m.user # NoUser

\* C27: a request issued by the replay of a login does not end the session of
\* that login: unless it fails authentication, its completion leaves the
\* stored identity in place; this holds for a replayed logout POST as well.
C27_ReplayKeepsSession == EveryCompletion(C27_Holds)

\* ---- C28 ----
\* C28: while a request issued by the replay is in flight and a user is logged
\* in, pending_requests holds an entry for it.
C28_ReplayedRequestRegistered ==
    logged_in_user # NoUser =>
       \A i \in DOMAIN replies :
          replies[i].replay =>
             InQueue(pending_requests, replies[i].kwargs._request_id)

\* ---- C29 ----
C29_Holds(r, o, net, m) ==
    (IsDownload(r) /\ IsSuccess(o) /\ r.kwargs.tmp_file # NoHandle
     /\ m.destination = "downloaded") =>
       \A k \in DOMAIN handles[r.kwargs.tmp_file].written :
          handles[r.kwargs.tmp_file].written[k] = ChunkOf(r)

\* C29: the temporary file that a successful transfer reply copies to the
\* destination holds chunks of that reply only: no chunk of the reply of an
\* earlier hop of a redirect chain, and none of a reply from before the replay.
C29_OnlyFinalResponseCommitted == EveryCompletion(C29_Holds)

\* ---- C30 ----
Carries(kwargs, h) == kwargs.tmp_file = h \/ kwargs.data_to_send = h

\* A request that holds the handle is in flight or waits in the queue: only the
\* completion of such a request can close the handle
Live(h) ==
    \/ \E i \in DOMAIN replies : Carries(replies[i].kwargs, h)
    \/ \E k \in DOMAIN pending_requests : Carries(pending_requests[k].request.kwargs, h)

\* C30: a file handle opened for a transfer is closed on every path that ends
\* the transfer: once no request that holds the handle is in flight or queued,
\* close() has been called on it.
C30_NoHandleLeft ==
    \A h \in DOMAIN handles :
       (handles[h].opened /\ ~Live(h)) => handles[h].closes >= 1

C30_Discarded(r, o, net, m) ==
    /\ SetsUser(r, o)
    /\ \E k \in DOMAIN pending_requests :
          /\ pending_requests[k].owner # o.user
          /\ \E h \in DOMAIN handles :
                /\ Carries(pending_requests[k].request.kwargs, h)
                /\ handles[h].opened
                /\ handles[h].closes = 0
                /\ m.handles[h].closes = 0
                /\ ~InQueue(m.pending, pending_requests[k].id)

\* C30, the queue entry of a transfer discarded by the login of another user:
\* no such login leaves the handle of the discarded entry open.
C30_DiscardClosesHandle == ~SomeCompletion(C30_Discarded)

====
